---- MODULE Spec2Model ----
(***************************************************************************)
(* A model of the facerust gallery manager (src/src/face_recognition.rs)   *)
(* and of its directory watcher (src/src/watcher.rs).                      *)
(*                                                                         *)
(* Shared state is interleaved at the granularity of lock acquisitions:    *)
(* every action below is one critical section of the code (one             *)
(* acquisition of db_load_status, db_path or features_map) together with   *)
(* the lock-free computation that follows it.                              *)
(***************************************************************************)
EXTENDS Integers, Sequences, FiniteSets, TLC

(* ------------------------------------------------------------------ *)
(* Bounds of the model                                                 *)
(* ------------------------------------------------------------------ *)

\* how many times the environment edits the directory trees in one behaviour
MaxFsChanges == 1

\* the last reading of the clock in one behaviour
MaxTime == 7

\* events queued in the watcher's channel at any one time
MaxQueue == 1

\* how many feature vectors one identity has in the store that is queried
MaxFeatures == 2

\* the directories a client may name
Paths == {"dbA", "dbB"}

\* the names an entry directly under a database directory may have; "raw"
\* stands for a name that is not valid UTF-8
Names == {"alice", "bob", "raw"}

\* OsStr::to_str() returns Some
ValidUtf8(n) == n # "raw"

\* the kinds of file inside an identity directory:
\*   face  - decodes, the extractor finds one face in it
\*   blank - imread yields an empty Mat
\*   bad   - decodes, but the extractor fails with DetectionFailed
\*   vis   - an annotated copy whose name contains "_visualize"
FileKinds == {"face", "blank", "bad", "vis"}

(* ------------------------------------------------------------------ *)
(* The directory tree                                                  *)
(* ------------------------------------------------------------------ *)

NoEntry == [type |-> "none", files |-> {}]

PlainFile == [type |-> "file", files |-> {}]

DirEntry(files) == [type |-> "dir", files |-> files]

\* a directory that read_dir cannot list
LockedDir == [type |-> "locked", files |-> {}]

Missing == [exists |-> FALSE, entries |-> [n \in Names |-> NoEntry]]

EmptyTree == [exists |-> TRUE, entries |-> [n \in Names |-> NoEntry]]

\* the entries the environment creates: nothing, a plain file, or an
\* identity directory holding at most one file
EnvEntries ==
    {NoEntry, PlainFile, LockedDir, DirEntry({})} \cup {DirEntry({k}) : k \in FileKinds}

(* ------------------------------------------------------------------ *)
(* Types of the manager's fields                                       *)
(* ------------------------------------------------------------------ *)

DbLoadStatus == {"NotLoaded", "Loading", "Loaded"}

\* Option<PathBuf>::None
NoPath == "None"

\* HashMap::new()
EmptyMap == [n \in {} |-> <<>>]

\* MatchResult::new(name, score)
MatchResult(name, score) == [name |-> name, score |-> score]

\* MatchResult::new("Unknown".to_string(), 0.0)
UnknownMatch == MatchResult("Unknown", 0)

\* no call has returned yet
NoMatchResults == [status |-> "none", results |-> <<>>, best_match |-> UnknownMatch]

\* the threads that call start_watching and stop_watching
Callers == {"t1", "t2"}

\* the guard of FaceRecognition.watcher is free
NoCaller == "none"

\* no frame has been passed to run yet
NoFrame == [kind |-> "none", rows |-> <<>>]

\* neither run nor run_one_face has returned yet
NoRunResults ==
    [call |-> "none", status |-> "none", results |-> <<>>, matches |-> <<>>,
     best |-> UnknownMatch]

\* no Create or Modify event received yet
NoEvent == -1

\* SystemTime::UNIX_EPOCH; file times are counted in edits of the trees
UnixEpoch == 0

\* HashMap::insert
MapInsert(m, k, v) == [n \in (DOMAIN m) \cup {k} |-> IF n = k THEN v ELSE m[n]]

VARIABLES
    db_load_status,  \* FaceRecognition.db_load_status
    features_map,    \* FaceRecognition.features_map
    db_path,         \* FaceRecognition.db_path
    fs,              \* the directory trees, by path
    fs_changes,      \* edits of the trees made so far
    pc,              \* position of the load_persons_db call in flight
    arg_path,        \* its persondb_folder
    arg_force,       \* its force, until its last use
    arg_visualize,   \* its visualize
    current_path,    \* its local current_path, until its last use
    current_status,  \* its local current_status
    todo,            \* entries of read_dir(&path) not yet visited
    person_name,     \* its local person_name
    person_features, \* its local person_features
    old_map,         \* features_map as it was when the call began
    outcome,         \* how the last load_persons_db call ended
    s_pc,            \* position of the set_db_path call in flight
    s_path,          \* its path
    q_pc,            \* whether a find_best_match holds the read lock
    fw_watcher,      \* FolderWatcher.watcher is Some
    fw_receiver,     \* FolderWatcher.receiver is Some
    fw_queue,        \* events in the channel whose receiver FolderWatcher holds
    loop_pc,         \* position of the observation loop of watch_for_changes
    loop_queue,      \* events in the channel whose receiver the loop holds
    loop_fed,        \* the sender of the loop's channel is alive
    last_change_time, \* the loop's local last_change_time
    recv_since,      \* when the loop's recv_timeout in progress began
    now,             \* the clock, in seconds
    callbacks,       \* when the loop invoked its callback, oldest first
    last_event,      \* when the loop last received a Create or Modify event
    spaced,          \* that event came more than the window after the one before
    after_error,     \* what the loop has done since it first received an Err
    watcher,         \* FaceRecognition.watcher is Some
    watcher_running, \* FaceRecognition.watcher_running
    last_mod_time,   \* FaceRecognition.last_mod_time
    watch_path,      \* the directory the manager's OS watcher observes
    watch_log,       \* how the last two start_watching/stop_watching calls ended
    m_threshold,     \* the threshold of the last find_best_match call
    m_out,           \* what the last find_best_match call returned
    r_frame,         \* the frame of the last run or run_one_face call
    r_threshold,     \* its threshold
    r_out,           \* what it returned
    w_pc,            \* position of each caller's start_watching or stop_watching
    w_lock,          \* the caller that holds the guard of FaceRecognition.watcher
    wfc_out          \* what the last watch_for_changes call returned

managerVars == <<db_load_status, features_map, db_path>>

loadLocals == <<arg_path, arg_force, arg_visualize, current_path,
                current_status, todo, person_name, person_features, old_map>>

setterVars == <<s_pc, s_path>>

envVars == <<fs, fs_changes>>

galleryVars == <<managerVars, loadLocals, setterVars, envVars, pc, outcome, q_pc>>

folderWatcherVars == <<fw_watcher, fw_receiver, fw_queue>>

loopGhosts == <<last_event, spaced, after_error>>

loopVars == <<loop_pc, loop_queue, loop_fed, last_change_time, recv_since, callbacks,
              loopGhosts>>

facadeVars == <<watcher, watcher_running, last_mod_time, watch_path, watch_log>>

runVars == <<r_frame, r_threshold, r_out>>

matchVars == <<m_threshold, m_out, runVars>>

callVars == <<w_pc, w_lock>>

watcherVars == <<folderWatcherVars, loopVars, now, facadeVars, matchVars,
                 callVars, wfc_out>>

\* the two channels
watchQueues == <<fw_queue, loop_queue>>

\* the watcher side without the channels
watcherRest == <<fw_watcher, fw_receiver, loop_pc, loop_fed, last_change_time,
                 recv_since, callbacks, loopGhosts, now, facadeVars, matchVars,
                 callVars, wfc_out>>

vars == <<galleryVars, watcherVars>>

(* ------------------------------------------------------------------ *)
(* What a load reads from an identity directory                        *)
(* ------------------------------------------------------------------ *)

\* mutant: no file name is taken for that of a visualization
IsVisualizeNever(k) == FALSE

\* filename.contains("_visualize")
IsVisualize(k) == k = "vis"

\* img.empty() after imread
ImreadEmpty(k) == k = "blank"

\* extract_features(img) returns Err(DetectionFailed)
ExtractFails(k) == k = "bad"

\* the files of an identity directory that reach extract_features
Extracted(files) == {k \in files : ~IsVisualize(k) /\ ~ImreadEmpty(k)}

\* person_features after the whole directory was read without error:
\* one feature vector per detected face
PersonFeatures(files) ==
    [i \in 1..Cardinality({k \in Extracted(files) : ~ExtractFails(k)}) |-> 1]

\* person_path.is_dir()
IsDir(e) == e.type \in {"dir", "locked"}

\* std::fs::read_dir(&person_path) returns Err
ReadDirFails(e) == e.type = "locked"

\* mutant: the name is kept as it is
PersonNameKept(n) == n

\* file_name().and_then(|n| n.to_str()).unwrap_or("unknown")
PersonName(n) == IF ValidUtf8(n) THEN n ELSE "unknown"

\* img_path.to_str().unwrap() panics: an image whose path is not text
PathPanics(n, files) == ~ValidUtf8(n) /\ \E k \in files : ~IsVisualize(k)

\* the mapping a complete, successful traversal of a tree builds
Gallery(tree) ==
    [key \in {PersonName(m) : m \in {d \in Names : IsDir(tree.entries[d])}} |->
        PersonFeatures(
            tree.entries[CHOOSE m \in Names :
                            IsDir(tree.entries[m]) /\ PersonName(m) = key].files)]

(* ------------------------------------------------------------------ *)
(* Construction                                                        *)
(* ------------------------------------------------------------------ *)

\* a populated database: an identity directory with one image for every
\* name that is text
\* the item is sent into the channel of the OS watcher: to the loop that
\* holds the receiver, to the FolderWatcher that holds it, or to nobody
Sent(items) ==
    IF loop_fed
    THEN loop_queue' = loop_queue \o items /\ UNCHANGED fw_queue
    ELSE IF fw_receiver
         THEN fw_queue' = fw_queue \o items /\ UNCHANGED loop_queue
         ELSE UNCHANGED <<fw_queue, loop_queue>>

\* what an OS watcher on the directory p reports of an edit under p
Notified(p, items) ==
    IF fw_watcher /\ watch_path = p
    THEN Sent(items)
    ELSE UNCHANGED <<fw_queue, loop_queue>>

\* the event of one entry of a tree being edited from o to e; making a
\* directory unreadable or readable is a change of metadata
EntryEvent(o, e) ==
    IF e.type = "none" THEN "Remove"
    ELSE IF o.type = "none" THEN "Create"
    ELSE IF {o.type, e.type} = {"dir", "locked"} THEN "ModifyMetadata"
    ELSE IF o.type # e.type THEN "Create"
    ELSE IF e.files \ o.files # {} THEN "Create"
    ELSE "Remove"

\* the events of the annotated copies written by a load: the copy is created
\* or, if there is one already, rewritten
VisualizeEvents(files, done, visualize) ==
    IF visualize /\ done # {}
    THEN <<IF "vis" \in files THEN "ModifyData" ELSE "Create">>
    ELSE <<>>

\* a regular file exists somewhere under the tree
HasFiles(tree) ==
    /\ tree.exists
    /\ \E n \in Names : \/ tree.entries[n].type = "file"
                         \/ tree.entries[n].files # {}

\* visit_dir fails: read_dir of a subdirectory fails
ScanFails(tree) == tree.exists /\ \E n \in Names : ReadDirFails(tree.entries[n])

\* get_latest_mod_time on a tree that can be read: the latest modification
\* time of a file under it, UNIX_EPOCH if there is no file or no directory
LatestModTime(tree, edits) == IF HasFiles(tree) THEN edits + 1 ELSE UnixEpoch

\* RecommendedWatcher::watch(path, Recursive) succeeds
Watchable(tree) == tree.exists /\ ~ScanFails(tree)

FullTree ==
    [exists |-> TRUE,
     entries |-> [n \in Names |-> IF ValidUtf8(n) THEN DirEntry({"face"}) ELSE NoEntry]]

\* the trees a behaviour starts from: a populated database under dbA and
\* nothing under the other paths; FsChange makes the others
InitFs == [p \in Paths |-> IF p = "dbA" THEN FullTree ELSE Missing]

\* the watcher, the loop and the calls in flight after construction
InitRest ==
    /\ fs_changes = 0
    /\ pc = "idle"
    /\ arg_path = NoPath
    /\ arg_force = FALSE
    /\ arg_visualize = FALSE
    /\ current_path = NoPath
    /\ current_status = "NotLoaded"
    /\ todo = {}
    /\ person_name = NoPath
    /\ person_features = <<>>
    /\ old_map = EmptyMap
    /\ outcome = "none"
    /\ s_pc = "idle"
    /\ s_path = NoPath
    /\ q_pc = "idle"
    /\ fw_watcher = FALSE
    /\ fw_receiver = FALSE
    /\ fw_queue = <<>>
    /\ loop_pc = "none"
    /\ loop_queue = <<>>
    /\ loop_fed = FALSE
    /\ last_change_time = 0
    /\ recv_since = 0
    /\ now = 0
    /\ callbacks = <<>>
    /\ last_event = NoEvent
    /\ spaced = FALSE
    /\ after_error = "none"
    /\ watcher = FALSE
    /\ watcher_running = FALSE
    /\ last_mod_time = UnixEpoch
    /\ watch_path = NoPath
    /\ watch_log = <<"none", "none">>
    /\ m_threshold = 0
    /\ m_out = NoMatchResults
    /\ r_frame = NoFrame
    /\ r_threshold = 0
    /\ r_out = NoRunResults
    /\ w_pc = [t \in Callers |-> "idle"]
    /\ w_lock = NoCaller
    /\ wfc_out = "none"

\* the manager after construction
InitGallery ==
    /\ db_load_status = "NotLoaded"
    /\ features_map = EmptyMap
    /\ db_path = NoPath

Init ==
    /\ fs = InitFs
    /\ InitGallery
    /\ InitRest

(* ------------------------------------------------------------------ *)
(* set_db_path                                                         *)
(* ------------------------------------------------------------------ *)

\* set_db_path, first critical section: the status is written
SetDbPathStatus(path) ==
    /\ s_pc = "idle"
    /\ db_load_status' = "NotLoaded"
    /\ s_path' = path
    /\ s_pc' = "set_path"
    /\ UNCHANGED <<features_map, db_path, pc, outcome, q_pc>>
    /\ UNCHANGED <<loadLocals, envVars>>
    /\ UNCHANGED watcherVars

\* set_db_path, second critical section: the path is written
SetDbPathPath ==
    /\ s_pc = "set_path"
    /\ db_path' = s_path
    /\ s_path' = NoPath
    /\ s_pc' = "idle"
    /\ UNCHANGED <<features_map, db_load_status, pc, outcome, q_pc>>
    /\ UNCHANGED <<loadLocals, envVars>>
    /\ UNCHANGED watcherVars

(* ------------------------------------------------------------------ *)
(* load_persons_db                                                     *)
(* ------------------------------------------------------------------ *)

\* the call returns or unwinds; its locals die with it
LoadReturn(res) ==
    /\ pc' = "idle"
    /\ outcome' = res
    /\ arg_path' = NoPath
    /\ arg_force' = FALSE
    /\ arg_visualize' = FALSE
    /\ current_path' = NoPath
    /\ current_status' = "NotLoaded"
    /\ todo' = {}
    /\ person_name' = NoPath
    /\ person_features' = <<>>
    /\ old_map' = EmptyMap

\* current_path.is_none() || current_path.as_ref() != Some(&path)
PathChanged(cur_path, path) == cur_path = NoPath \/ cur_path # path

\* mutant: a load is skipped in every status but NotLoaded
AlreadyLoadedOrLoading(cur_status, force) == cur_status # "NotLoaded" /\ ~force

\* mutant: the sense of force is inverted
AlreadyLoadedForceInverted(cur_status, force) == cur_status = "Loaded" /\ force

\* mutant: force is ignored
AlreadyLoadedIgnoresForce(cur_status, force) == cur_status = "Loaded"

\* current_status == DbLoadStatus::Loaded && !force
AlreadyLoaded(cur_status, force) == cur_status = "Loaded" /\ ~force

\* the call begins: db_path is read
LoadBegin(path, force, visualize) ==
    /\ pc = "idle"
    /\ arg_path' = path
    /\ arg_force' = force
    /\ arg_visualize' = visualize
    /\ current_path' = db_path
    /\ old_map' = features_map
    /\ outcome' = "none"
    /\ pc' = "check"
    /\ UNCHANGED <<current_status, todo, person_name, person_features, q_pc>>
    /\ UNCHANGED <<managerVars, setterVars, envVars>>
    /\ UNCHANGED watcherVars

\* the status is read and the need for a load decided
LoadCheck ==
    /\ pc = "check"
    /\ IF PathChanged(current_path, arg_path)
       THEN /\ pc' = "reset_status"
            /\ current_status' = db_load_status
            /\ current_path' = NoPath
            /\ arg_force' = FALSE
            /\ UNCHANGED <<arg_path, arg_visualize, todo,
                           person_name, person_features, old_map, outcome>>
       ELSE IF AlreadyLoaded(db_load_status, arg_force)
            THEN LoadReturn("skipped")
            ELSE /\ pc' = "set_loading"
                 /\ current_status' = db_load_status
                 /\ current_path' = NoPath
                 /\ arg_force' = FALSE
                 /\ UNCHANGED <<arg_path, arg_visualize, todo,
                                person_name, person_features, old_map, outcome>>
    /\ UNCHANGED <<managerVars, setterVars, envVars, q_pc>>
    /\ UNCHANGED watcherVars

\* a new path: the status is reset
LoadResetStatus ==
    /\ pc = "reset_status"
    /\ db_load_status' = "NotLoaded"
    /\ pc' = "set_path"
    /\ UNCHANGED <<features_map, db_path, outcome, q_pc>>
    /\ UNCHANGED <<loadLocals, setterVars, envVars>>
    /\ UNCHANGED watcherVars

\* a new path: the path is recorded
LoadSetPath ==
    /\ pc = "set_path"
    /\ db_path' = arg_path
    /\ pc' = "set_loading"
    /\ UNCHANGED <<features_map, db_load_status, outcome, q_pc>>
    /\ UNCHANGED <<loadLocals, setterVars, envVars>>
    /\ UNCHANGED watcherVars

\* mutant: the store is cleared without the status being written first
LoadSetLoadingSkipped ==
    /\ pc = "set_loading"
    /\ pc' = "clear"
    /\ UNCHANGED <<managerVars, outcome, q_pc>>
    /\ UNCHANGED <<loadLocals, setterVars, envVars>>
    /\ UNCHANGED watcherVars

\* "Set loading status"
LoadSetLoading ==
    /\ pc = "set_loading"
    /\ db_load_status' = "Loading"
    /\ pc' = "clear"
    /\ UNCHANGED <<features_map, db_path, outcome, q_pc>>
    /\ UNCHANGED <<loadLocals, setterVars, envVars>>
    /\ UNCHANGED watcherVars

\* "Clear existing features", under the write lock
LoadClear ==
    /\ pc = "clear"
    /\ q_pc = "idle"
    /\ features_map' = EmptyMap
    /\ pc' = "read_dir"
    /\ UNCHANGED <<db_load_status, db_path, outcome, q_pc>>
    /\ UNCHANGED <<loadLocals, setterVars, envVars>>
    /\ UNCHANGED watcherVars

\* std::fs::read_dir(&path)?
LoadReadDir ==
    /\ pc = "read_dir"
    /\ IF ~fs[arg_path].exists
       THEN LoadReturn("Io")
       ELSE /\ todo' = {n \in Names : fs[arg_path].entries[n].type # "none"}
            /\ pc' = "entries"
            /\ UNCHANGED <<arg_path, arg_force, arg_visualize, current_path,
                           current_status, person_name, person_features, old_map,
                           outcome>>
    /\ UNCHANGED <<managerVars, setterVars, envVars, q_pc>>
    /\ UNCHANGED watcherVars

\* the identity directory after its images were read: with visualize, every
\* image that got through extract_features has left an annotated copy
VisualizeWritten(files, done, visualize) ==
    IF visualize /\ done # {} THEN files \cup {"vis"} ELSE files

\* one entry of the directory is visited and, if it is a directory, its
\* images are read; no lock is held
LoadEntry ==
    /\ pc = "entries"
    /\ \E n \in todo :
         LET e == fs[arg_path].entries[n]
             good == {k \in Extracted(e.files) : ~ExtractFails(k)}
         IN  IF ~IsDir(e)
             THEN /\ todo' = todo \ {n}
                  /\ UNCHANGED <<pc, arg_path, arg_force, arg_visualize, current_path,
                                 current_status, person_name, person_features, old_map,
                                 outcome, fs, watchQueues>>
             ELSE \/ \* std::fs::read_dir(&person_path)? fails
                     /\ ReadDirFails(e)
                     /\ LoadReturn("Io")
                     /\ UNCHANGED <<fs, watchQueues>>
                  \/ \* img_path.to_str().unwrap() panics on the first image
                     /\ ~ReadDirFails(e)
                     /\ PathPanics(n, e.files)
                     /\ LoadReturn("Panic")
                     /\ UNCHANGED <<fs, watchQueues>>
                  \/ \* extract_features(..)? fails on one image, after some
                     \* of the others were read
                     /\ ~ReadDirFails(e)
                     /\ ~PathPanics(n, e.files)
                     /\ \E k \in Extracted(e.files) : ExtractFails(k)
                     /\ \E done \in SUBSET good :
                          /\ fs' = [fs EXCEPT ![arg_path].entries[n].files =
                                       VisualizeWritten(e.files, done, arg_visualize)]
                          /\ Notified(arg_path,
                                      VisualizeEvents(e.files, done, arg_visualize))
                     /\ LoadReturn("DetectionFailed")
                  \/ \* every image was read
                     /\ ~ReadDirFails(e)
                     /\ ~PathPanics(n, e.files)
                     /\ \A k \in Extracted(e.files) : ~ExtractFails(k)
                     /\ person_name' = PersonName(n)
                     /\ person_features' = PersonFeatures(e.files)
                     /\ todo' = todo \ {n}
                     /\ fs' = [fs EXCEPT ![arg_path].entries[n].files =
                                  VisualizeWritten(e.files, good, arg_visualize)]
                     /\ Notified(arg_path,
                                 VisualizeEvents(e.files, good, arg_visualize))
                     /\ pc' = "insert"
                     /\ UNCHANGED <<arg_path, arg_force, arg_visualize, current_path,
                                    current_status, old_map, outcome>>
    /\ UNCHANGED <<managerVars, setterVars, fs_changes, q_pc>>
    /\ UNCHANGED watcherRest

\* "Store features for this person", under the write lock
LoadInsert ==
    /\ pc = "insert"
    /\ q_pc = "idle"
    /\ features_map' = MapInsert(features_map, person_name, person_features)
    /\ pc' = "entries"
    /\ UNCHANGED <<db_load_status, db_path, outcome, q_pc>>
    /\ UNCHANGED <<loadLocals, setterVars, envVars>>
    /\ UNCHANGED watcherVars

\* "Set loaded status"
LoadSetLoaded ==
    /\ pc = "entries"
    /\ todo = {}
    /\ db_load_status' = "Loaded"
    /\ LoadReturn("loaded")
    /\ UNCHANGED <<features_map, db_path, q_pc>>
    /\ UNCHANGED <<setterVars, envVars>>
    /\ UNCHANGED watcherVars

(* ------------------------------------------------------------------ *)
(* find_best_match: the mapping is read under the read lock            *)
(* ------------------------------------------------------------------ *)

\* mutant: the write guard taken to clear the store is alive until the load
\* returns
WriteGuardAliveUntilReturn(p) == p \in {"read_dir", "entries", "insert"}

\* the positions between two steps of a load at which it holds a write guard
\* of features_map: the guard of the clear is dropped and that of the insert
\* goes out of scope within the step that takes it
WriteGuardAlive(p) == FALSE

\* self.features_map.read().await
QueryBegin ==
    /\ q_pc = "idle"
    /\ ~WriteGuardAlive(pc)
    /\ q_pc' = "reading"
    /\ UNCHANGED <<managerVars, loadLocals, setterVars, envVars, pc, outcome>>
    /\ UNCHANGED watcherVars

QueryEnd ==
    /\ q_pc = "reading"
    /\ q_pc' = "idle"
    /\ UNCHANGED <<managerVars, loadLocals, setterVars, envVars, pc, outcome>>
    /\ UNCHANGED watcherVars

(* ------------------------------------------------------------------ *)
(* The environment edits a tree that no load is traversing             *)
(* ------------------------------------------------------------------ *)

FsChange ==
    /\ pc = "idle"
    /\ fs_changes < MaxFsChanges
    /\ fs_changes' = fs_changes + 1
    /\ \E p \in Paths :
         \/ /\ fs[p].exists
            /\ \E n \in Names, e \in EnvEntries :
                 /\ e # fs[p].entries[n]
                 /\ fs' = [fs EXCEPT ![p].entries[n] = e]
                 /\ Notified(p, <<EntryEvent(fs[p].entries[n], e)>>)
         \/ /\ fs' = [fs EXCEPT ![p] = IF fs[p].exists THEN Missing ELSE EmptyTree]
            /\ Notified(p, IF fs[p].exists THEN <<"Remove">> ELSE <<>>)
    /\ UNCHANGED <<managerVars, loadLocals, setterVars, pc, outcome, q_pc>>
    /\ UNCHANGED watcherRest

Next ==
    \/ \E path \in Paths : SetDbPathStatus(path)
    \/ SetDbPathPath
    \/ \E path \in Paths, force \in BOOLEAN, visualize \in BOOLEAN :
         LoadBegin(path, force, visualize)
    \/ LoadCheck
    \/ LoadResetStatus
    \/ LoadSetPath
    \/ LoadSetLoading
    \/ LoadClear
    \/ LoadReadDir
    \/ LoadEntry
    \/ LoadInsert
    \/ LoadSetLoaded
    \/ QueryBegin
    \/ QueryEnd
    \/ FsChange

Spec == Init /\ [][Next]_vars

(* ------------------------------------------------------------------ *)
(* Properties of load_persons_db and set_db_path                       *)
(* ------------------------------------------------------------------ *)

\* the error results of load_persons_db
LoadErrors == {"Io", "DetectionFailed"}

\* the step in which a load_persons_db call returns an error
LoadFails == pc # "idle" /\ pc' = "idle" /\ outcome' \in LoadErrors

\* the step in which a load_persons_db call that rebuilt the store returns Ok
LoadSucceeds == pc = "entries" /\ pc' = "idle" /\ outcome' = "loaded"

\* the names of the immediate subdirectories of a tree
Subdirectories(tree) == {n \in Names : tree.entries[n].type \in {"dir", "locked"}}

\* C1: a find_best_match that holds the read lock while a reload is in
\* flight reads the complete mapping from before the reload or the complete
\* mapping the reload builds, never an empty or partly rebuilt one.
C1_ReloadAtomicity ==
    (q_pc = "reading" /\ pc \notin {"idle", "check"} /\ current_status = "Loaded")
        => \/ features_map = old_map
           \/ fs[arg_path].exists /\ features_map = Gallery(fs[arg_path])

\* C2: when load_persons_db returns an error the status is not left Loading.
C2_FailedLoadRevertsStatus ==
    [][LoadFails => db_load_status' # "Loading"]_vars

\* C3: a failed load of a gallery that was Loaded with a non-empty mapping
\* leaves features_map as it was before the call.
C3_FailedReloadKeepsGallery ==
    [][(LoadFails /\ current_status = "Loaded" /\ old_map # EmptyMap)
          => features_map' = old_map]_vars

\* C4: load_persons_db(path, force = false) with path the configured path and
\* status Loaded returns Ok at once: features_map, db_path and db_load_status
\* are unchanged by the call and Loading is never written.
C4_FastPathIdempotent ==
    [][/\ (pc = "idle" /\ pc' = "check") => UNCHANGED managerVars
       /\ (/\ pc = "check"
           /\ pc' # "check"
           /\ current_path = arg_path
           /\ db_load_status = "Loaded"
           /\ ~arg_force)
             => /\ pc' = "idle"
                /\ outcome' = "skipped"
                /\ UNCHANGED managerVars]_vars

\* a call took the fast path on a loaded, non-empty gallery
C4_Witness ==
    /\ pc = "idle"
    /\ outcome = "skipped"
    /\ db_load_status = "Loaded"
    /\ features_map # EmptyMap

\* C5: with force set or with a path other than the configured one,
\* load_persons_db rebuilds whatever the status: it does not return early,
\* writes Loading, clears the store, and on success leaves the status Loaded
\* and the store equal to the gallery of the directory as it is then.
C5_ForcedOrNewPathRebuilds ==
    [][/\ (pc = "check" /\ pc' # "check" /\ (arg_force \/ current_path # arg_path))
             => pc' \in {"reset_status", "set_loading"}
       /\ (pc \in {"reset_status", "set_path"} /\ pc' # pc)
             => pc' \in {"set_path", "set_loading"}
       /\ (pc = "set_loading" /\ pc' # pc)
             => pc' = "clear" /\ db_load_status' = "Loading"
       /\ (pc = "clear" /\ pc' # pc)
             => pc' = "read_dir" /\ features_map' = EmptyMap
       /\ LoadSucceeds
             => /\ db_load_status' = "Loaded"
                /\ features_map' = Gallery(fs[arg_path])]_vars

\* a reload of a Loaded gallery is about to return with a store that
\* differs from the snapshot it replaced
C5_Witness ==
    /\ pc = "entries"
    /\ todo = {}
    /\ current_status = "Loaded"
    /\ db_load_status = "Loading"
    /\ features_map # old_map
    /\ features_map = Gallery(fs[arg_path])

\* C6 as claimed: after a successful rebuild the keys of features_map are
\* exactly the names of the immediate subdirectories of the loaded path.
C6_KeysAreSubdirectories ==
    [][LoadSucceeds => DOMAIN features_map' = Subdirectories(fs[arg_path])]_vars

\* the key a subdirectory name is stored under: itself if it is text,
\* "unknown" otherwise
KeyOf(n) == IF n = "raw" THEN "unknown" ELSE n

\* C6 as amended: after a successful rebuild the keys of features_map are
\* exactly the names of the immediate subdirectories of the loaded path,
\* with "unknown" in place of a name that is not valid UTF-8.
C6_KeysAreSubdirectoryKeys ==
    [][LoadSucceeds =>
          DOMAIN features_map' = {KeyOf(n) : n \in Subdirectories(fs[arg_path])}]_vars

\* a rebuild is about to return over a tree that holds a subdirectory whose
\* name is not text, stored under "unknown"
C6_Witness ==
    /\ pc = "entries"
    /\ todo = {}
    /\ "raw" \in Subdirectories(fs[arg_path])
    /\ "unknown" \in DOMAIN features_map
    /\ DOMAIN features_map = {KeyOf(n) : n \in Subdirectories(fs[arg_path])}

\* C7: set_db_path with the path already configured leaves a Loaded status
\* as it is.
C7_SamePathKeepsStatus ==
    [][(s_pc = "idle" /\ s_pc' = "set_path" /\ s_path' = db_path
                      /\ db_load_status = "Loaded")
          => db_load_status' = "Loaded"]_vars

\* the store between its clearing and the insertion of its last identity
Rebuilding == pc \in {"read_dir", "insert"} \/ (pc = "entries" /\ todo # {})

\* C8: while a load is rebuilding the store the status is not Loaded, and
\* Loaded is written only by a load that has visited every entry.
C8_LoadedNeverMidRebuild ==
    /\ Rebuilding => db_load_status # "Loaded"
    /\ pc = "clear" => db_load_status # "Loaded"

\* a reload of a Loaded gallery has cleared the store and inserted one
\* identity of several
C8_Witness ==
    /\ pc = "entries"
    /\ todo # {}
    /\ current_status = "Loaded"
    /\ features_map # EmptyMap
    /\ features_map # old_map

\* C9: no load is aborted by the failure of one image: load_persons_db
\* never returns DetectionFailed.
C9_PerFileFailureSkipped == outcome # "DetectionFailed"

(* ------------------------------------------------------------------ *)
(* FolderWatcher (src/src/watcher.rs)                                  *)
(* ------------------------------------------------------------------ *)

\* Duration::from_secs(2), the debounce window
Debounce == 2

\* Duration::from_secs(1), the timeout of one recv_timeout
RecvTimeout == 1

\* what the channel carries: Ok(event) by the event's kind, or Err(e); a
\* Modify event is one of data or one of metadata only
EventKinds == {"Create", "ModifyData", "ModifyMetadata", "Remove"}

\* what the OS watcher is let to send: a Modify of data is handled by the
\* loop exactly as a Create is
ChannelItems == (EventKinds \ {"ModifyData"}) \cup {"Error"}

\* EventKind::Create(_) | EventKind::Modify(_)
Qualifying(item) == item \in {"Create", "ModifyData", "ModifyMetadata"}

\* now.duration_since(last_change_time).unwrap_or(Duration::from_secs(0))
DurationSince(t, earlier) == IF t >= earlier THEN t - earlier ELSE 0

\* mutant: the callback fires at the end of the window already
DebouncePassedAtWindow(t, last) == DurationSince(t, last) >= Debounce

\* mutant: the window is a second longer
DebouncePassedLate(t, last) == DurationSince(t, last) > Debounce + 1

\* the debounce test: more than 2 seconds have passed
DebouncePassed(t, last) == DurationSince(t, last) > Debounce

\* time passes
Tick ==
    /\ now < MaxTime
    /\ now' = now + 1
    /\ UNCHANGED <<galleryVars, folderWatcherVars, loopVars, facadeVars, matchVars,
                   callVars, wfc_out>>

\* FolderWatcher::start_watching on a path that can be watched: a new channel
\* and a new OS watcher replace the old ones
StartWatching ==
    /\ fw_watcher' = TRUE
    /\ fw_receiver' = TRUE
    /\ fw_queue' = <<>>
    /\ loop_fed' = FALSE
    /\ UNCHANGED <<loop_pc, loop_queue, last_change_time, recv_since, callbacks,
                   loopGhosts>>
    /\ UNCHANGED <<galleryVars, now, facadeVars, matchVars, callVars, wfc_out>>

\* FolderWatcher::start_watching on a path that cannot be watched: WatchError,
\* the new channel is dropped and self is left as it was
StartWatchingFails ==
    /\ UNCHANGED <<galleryVars, watcherVars>>

\* FolderWatcher::stop_watching
StopWatching ==
    /\ fw_watcher' = FALSE
    /\ fw_receiver' = FALSE
    /\ fw_queue' = <<>>
    /\ loop_fed' = FALSE
    /\ UNCHANGED <<loop_pc, loop_queue, last_change_time, recv_since, callbacks,
                   loopGhosts>>
    /\ UNCHANGED <<galleryVars, now, facadeVars, matchVars, callVars, wfc_out>>

\* the OS watcher sends an item into its channel
FsEvent(item) ==
    /\ fw_watcher
    /\ IF loop_fed
       THEN /\ Len(loop_queue) < MaxQueue
            /\ loop_queue' = Append(loop_queue, item)
            /\ UNCHANGED fw_queue
       ELSE /\ fw_receiver
            /\ Len(fw_queue) < MaxQueue
            /\ fw_queue' = Append(fw_queue, item)
            /\ UNCHANGED loop_queue
    /\ UNCHANGED <<fw_watcher, fw_receiver, loop_pc, loop_fed, last_change_time,
                   recv_since, callbacks, loopGhosts>>
    /\ UNCHANGED <<galleryVars, now, facadeVars, matchVars, callVars, wfc_out>>

\* watch_for_changes: the receiver is taken and the observation loop spawned;
\* one loop runs at a time, the call awaits its end
WatchForChanges ==
    /\ loop_pc \in {"none", "done"}
    /\ fw_receiver
    /\ fw_receiver' = FALSE
    /\ loop_queue' = fw_queue
    /\ fw_queue' = <<>>
    /\ loop_fed' = fw_watcher
    /\ loop_pc' = "spawned"
    /\ wfc_out' = "none"
    /\ UNCHANGED <<fw_watcher, last_change_time, recv_since, callbacks, loopGhosts>>
    /\ UNCHANGED <<galleryVars, now, facadeVars, matchVars, callVars>>

\* mutant: without a receiver the call spawns a loop on a channel that has
\* no sender
WatchForChangesFailsSpawns ==
    /\ loop_pc \in {"none", "done"}
    /\ ~fw_receiver
    /\ loop_queue' = <<>>
    /\ loop_fed' = FALSE
    /\ loop_pc' = "spawned"
    /\ wfc_out' = "none"
    /\ UNCHANGED <<last_change_time, recv_since, callbacks, loopGhosts>>
    /\ UNCHANGED <<galleryVars, folderWatcherVars, now, facadeVars, matchVars,
                   callVars>>

\* watch_for_changes without a receiver: WatchError("Watcher not started"),
\* nothing is spawned
WatchForChangesFails ==
    /\ loop_pc \in {"none", "done"}
    /\ ~fw_receiver
    /\ wfc_out' = "WatchError"
    /\ UNCHANGED <<loopVars, folderWatcherVars>>
    /\ UNCHANGED <<galleryVars, now, facadeVars, matchVars, callVars>>

\* the blocking task starts: let mut last_change_time = SystemTime::now()
LoopStart ==
    /\ loop_pc = "spawned"
    /\ last_change_time' = now
    /\ recv_since' = now
    /\ callbacks' = <<>>
    /\ last_event' = NoEvent
    /\ spaced' = FALSE
    /\ after_error' = "none"
    /\ loop_pc' = "running"
    /\ UNCHANGED <<loop_queue, loop_fed>>
    /\ UNCHANGED <<galleryVars, folderWatcherVars, now, facadeVars, matchVars,
                   callVars, wfc_out>>

\* mutant: an Err item ends the loop
LoopAfterBreaksOnError(item) == IF item = "Error" THEN "done" ELSE "running"

\* where the loop is after the arm of an item: no arm of Ok(_) breaks
LoopAfter(item) == "running"

\* mutant: a suppressed event moves the debounce timestamp
LoopReceiveRestartsWindow ==
    /\ loop_pc = "running"
    /\ loop_queue # <<>>
    /\ loop_queue' = Tail(loop_queue)
    /\ recv_since' = now
    /\ LET item == Head(loop_queue)
           fires == Qualifying(item) /\ DebouncePassed(now, last_change_time)
       IN  /\ IF fires
              THEN /\ callbacks' = Append(callbacks, now)
                   /\ last_change_time' = now
              ELSE /\ UNCHANGED callbacks
                   /\ last_change_time' = IF Qualifying(item)
                                          THEN now
                                          ELSE last_change_time
           /\ IF Qualifying(item)
              THEN /\ last_event' = now
                   /\ spaced' = (last_event # NoEvent /\ now - last_event > Debounce)
              ELSE UNCHANGED <<last_event, spaced>>
           /\ after_error' = IF item = "Error" /\ after_error = "none"
                             THEN "error"
                             ELSE IF fires /\ after_error = "error"
                                  THEN "callback"
                                  ELSE after_error
           /\ loop_pc' = LoopAfter(item)
    /\ UNCHANGED loop_fed
    /\ UNCHANGED <<galleryVars, folderWatcherVars, now, facadeVars, matchVars,
                   callVars, wfc_out>>

\* recv_timeout returns Ok(item): an event or a watcher error
LoopReceive ==
    /\ loop_pc = "running"
    /\ loop_queue # <<>>
    /\ loop_queue' = Tail(loop_queue)
    /\ recv_since' = now
    /\ LET item == Head(loop_queue)
           fires == Qualifying(item) /\ DebouncePassed(now, last_change_time)
       IN  /\ IF fires
              THEN /\ callbacks' = Append(callbacks, now)
                   /\ last_change_time' = now
              ELSE UNCHANGED <<callbacks, last_change_time>>
           /\ IF Qualifying(item)
              THEN /\ last_event' = now
                   /\ spaced' = (last_event # NoEvent /\ now - last_event > Debounce)
              ELSE UNCHANGED <<last_event, spaced>>
           /\ after_error' = IF item = "Error" /\ after_error = "none"
                             THEN "error"
                             ELSE IF fires /\ after_error = "error"
                                  THEN "callback"
                                  ELSE after_error
           /\ loop_pc' = LoopAfter(item)
    /\ UNCHANGED loop_fed
    /\ UNCHANGED <<galleryVars, folderWatcherVars, now, facadeVars, matchVars,
                   callVars, wfc_out>>

\* recv_timeout returns Err(Timeout): continue
LoopTimeout ==
    /\ loop_pc = "running"
    /\ loop_queue = <<>>
    /\ loop_fed
    /\ now - recv_since >= RecvTimeout
    /\ recv_since' = now
    /\ UNCHANGED <<loop_pc, loop_queue, loop_fed, last_change_time, callbacks,
                   loopGhosts>>
    /\ UNCHANGED <<galleryVars, folderWatcherVars, now, facadeVars, matchVars,
                   callVars, wfc_out>>

\* mutant: the loop goes on after the channel is disconnected
LoopDisconnectedContinues ==
    /\ loop_pc = "running"
    /\ loop_queue = <<>>
    /\ ~loop_fed
    /\ UNCHANGED <<galleryVars, watcherVars>>

\* recv_timeout returns Err(Disconnected): break; the task ends and
\* watch_for_changes returns Ok
LoopDisconnected ==
    /\ loop_pc = "running"
    /\ loop_queue = <<>>
    /\ ~loop_fed
    /\ loop_pc' = "done"
    /\ wfc_out' = "Ok"
    /\ UNCHANGED <<loop_queue, loop_fed, last_change_time, recv_since, callbacks,
                   loopGhosts>>
    /\ UNCHANGED <<galleryVars, folderWatcherVars, now, facadeVars, matchVars,
                   callVars>>

NextWatcher ==
    \/ Tick
    \/ StartWatching
    \/ StartWatchingFails
    \/ StopWatching
    \/ \E item \in ChannelItems : FsEvent(item)
    \/ WatchForChanges
    \/ WatchForChangesFails
    \/ LoopStart
    \/ LoopReceive
    \/ LoopTimeout
    \/ LoopDisconnected

SpecWatcher == Init /\ [][NextWatcher]_vars

\* C10: any two consecutive invocations of the callback by the observation
\* loop are more than the 2-second debounce window apart.
C10_DebounceUpperBound ==
    \A i \in 1..(Len(callbacks) - 1) : callbacks[i + 1] - callbacks[i] > Debounce

\* the loop has invoked the callback twice, as close together as the
\* debounce test lets it
C10_Witness ==
    /\ loop_pc = "running"
    /\ Len(callbacks) >= 2
    /\ callbacks[2] - callbacks[1] = Debounce + 1

\* C11: a burst of Create/Modify events that the loop receives within one
\* debounce window invokes the callback exactly once, also when the burst is
\* the first activity after the loop started: once the loop has received such
\* an event, the callback has been invoked.
C11_BurstInvokesCallback ==
    (loop_pc = "running" /\ last_event # NoEvent) => callbacks # <<>>

\* C12: every Create/Modify event that the loop receives more than the
\* 2-second window after the Create/Modify event before it invokes the
\* callback.
C12_SpacedEventInvokesCallback ==
    spaced => (callbacks # <<>> /\ callbacks[Len(callbacks)] = last_event)

\* the first event was received in the first window after the loop started
\* and suppressed; the next one came more than the window after it and is
\* the only one that invoked the callback
C12_Witness ==
    /\ loop_pc = "running"
    /\ spaced
    /\ Len(callbacks) = 1
    /\ callbacks[1] = last_event

\* what the specification counts as a change of the reference images: a
\* creation or a modification of data, not a change of metadata only
ContentChange(item) == item \in {"Create", "ModifyData"}

\* C13: an event that is neither a Create nor a Modify of content (a delete,
\* a metadata-only change, an error) never invokes the callback and leaves the
\* debounce timestamp as it was.
C13_OtherKindsIgnored ==
    [][LoopReceive /\ ~ContentChange(Head(loop_queue))
         => UNCHANGED <<callbacks, last_change_time>>]_vars

\* for termination the kind of an item does not matter: the OS watcher sends
\* events of one kind that counts as a change and of one that does not
NextWatcherLive ==
    \/ Tick
    \/ StartWatching
    \/ StartWatchingFails
    \/ StopWatching
    \/ \E item \in {"Create", "Remove"} : FsEvent(item)
    \/ WatchForChanges
    \/ WatchForChangesFails
    \/ LoopStart
    \/ LoopReceive
    \/ LoopTimeout
    \/ LoopDisconnected

\* the blocking task is run by its own thread: it starts, and a recv_timeout
\* that can return an item or Disconnected does return
SpecWatcherLive ==
    /\ Init /\ [][NextWatcherLive]_vars
    /\ WF_vars(LoopStart)
    /\ WF_vars(LoopReceive)
    /\ WF_vars(LoopDisconnected)

\* C15: once the OS watcher and with it the sender of the loop's channel are
\* dropped, the observation loop terminates, and after it has terminated no
\* callback is invoked.
C15_StoppedLoopTerminates ==
    /\ (loop_pc \in {"spawned", "running"} /\ ~loop_fed) ~> (loop_pc = "done")
    /\ [][loop_pc = "done" /\ loop_pc' = "done" => callbacks' = callbacks]_vars

\* the loop has invoked the callback and has terminated after a stop
C15_Witness ==
    /\ loop_pc = "done"
    /\ ~fw_watcher
    /\ callbacks # <<>>

\* C17: an Err item received from the channel leaves the loop running and
\* changes neither the callbacks nor the debounce timestamp; the loop ends
\* only when its channel is empty and disconnected.
C17_ErrorKeepsLoopRunning ==
    [][/\ LoopReceive /\ Head(loop_queue) = "Error"
            => loop_pc' = "running" /\ UNCHANGED <<callbacks, last_change_time>>
       /\ loop_pc = "running" /\ loop_pc' # "running"
            => loop_pc' = "done" /\ loop_queue = <<>> /\ ~loop_fed
      ]_vars

\* the loop has received an Err item and has invoked the callback for a later
\* event
C17_Witness ==
    /\ loop_pc = "running"
    /\ after_error = "callback"

(* ------------------------------------------------------------------ *)
(* FaceRecognition::start_watching and stop_watching                   *)
(* ------------------------------------------------------------------ *)

\* the log of the calls after one more has ended
Logged(res) == <<watch_log[2], res>>

\* how the last call ended
LastWatchCall == watch_log[2]

\* the identity directories of the gallery used with the watcher; more are
\* added while it runs
ManagerTree ==
    [exists |-> TRUE,
     entries |-> [n \in Names |-> IF n = "alice" THEN DirEntry({"face"}) ELSE NoEntry]]

InitManager ==
    /\ fs = [p \in Paths |-> IF p = "dbA" THEN ManagerTree ELSE Missing]
    /\ InitGallery
    /\ InitRest

\* mutant: the flag is raised before the watcher is started
ManagerStartWatchingFlagFirst ==
    /\ IF db_path = NoPath
       THEN /\ watch_log' = Logged("DatabaseNotLoaded")
            /\ UNCHANGED <<watcher, watcher_running, last_mod_time, watch_path,
                           folderWatcherVars>>
       ELSE IF watcher_running
       THEN /\ watch_log' = Logged("Ok")
            /\ UNCHANGED <<watcher, watcher_running, last_mod_time, watch_path,
                           folderWatcherVars>>
       ELSE IF ScanFails(fs[db_path])
       THEN /\ watch_log' = Logged("Io")
            /\ UNCHANGED <<watcher, watcher_running, last_mod_time, watch_path,
                           folderWatcherVars>>
       ELSE /\ last_mod_time' = LatestModTime(fs[db_path], fs_changes)
            /\ watcher_running' = TRUE
            /\ IF ~Watchable(fs[db_path])
               THEN /\ watch_log' = Logged("WatchError")
                    /\ UNCHANGED <<watcher, watch_path, folderWatcherVars>>
               ELSE /\ watcher' = TRUE
                    /\ fw_watcher' = TRUE
                    /\ fw_receiver' = TRUE
                    /\ fw_queue' = <<>>
                    /\ watch_path' = db_path
                    /\ watch_log' = Logged("Ok")
    /\ UNCHANGED <<galleryVars, loopVars, now, matchVars, callVars, wfc_out>>

\* FaceRecognition::start_watching: the path is read, the tree scanned for its
\* latest modification time, a FolderWatcher made, started on the path and
\* stored, and the flag raised; no call of watch_for_changes, no callback
ManagerStartWatching ==
    /\ IF db_path = NoPath
       THEN /\ watch_log' = Logged("DatabaseNotLoaded")
            /\ UNCHANGED <<watcher, watcher_running, last_mod_time, watch_path,
                           folderWatcherVars>>
       ELSE IF watcher_running
       THEN /\ watch_log' = Logged("Ok")
            /\ UNCHANGED <<watcher, watcher_running, last_mod_time, watch_path,
                           folderWatcherVars>>
       ELSE IF ScanFails(fs[db_path])
       THEN /\ watch_log' = Logged("Io")
            /\ UNCHANGED <<watcher, watcher_running, last_mod_time, watch_path,
                           folderWatcherVars>>
       ELSE /\ last_mod_time' = LatestModTime(fs[db_path], fs_changes)
            /\ IF ~Watchable(fs[db_path])
               THEN /\ watch_log' = Logged("WatchError")
                    /\ UNCHANGED <<watcher, watcher_running, watch_path,
                                   folderWatcherVars>>
               ELSE /\ watcher' = TRUE
                    /\ fw_watcher' = TRUE
                    /\ fw_receiver' = TRUE
                    /\ fw_queue' = <<>>
                    /\ watch_path' = db_path
                    /\ watcher_running' = TRUE
                    /\ watch_log' = Logged("Ok")
    /\ UNCHANGED <<galleryVars, loopVars, now, matchVars, callVars, wfc_out>>

\* mutant: the flag is left as it is
ManagerStopWatchingKeepsFlag ==
    /\ watcher' = FALSE
    /\ fw_watcher' = FALSE
    /\ fw_receiver' = FALSE
    /\ fw_queue' = <<>>
    /\ watch_path' = NoPath
    /\ watch_log' = Logged("Stopped")
    /\ UNCHANGED <<watcher_running, last_mod_time>>
    /\ UNCHANGED <<galleryVars, loopVars, now, matchVars, callVars, wfc_out>>

\* FaceRecognition::stop_watching: the FolderWatcher, if there is one, is
\* taken, stopped and dropped, and the flag lowered
ManagerStopWatching ==
    /\ watcher' = FALSE
    /\ fw_watcher' = FALSE
    /\ fw_receiver' = FALSE
    /\ fw_queue' = <<>>
    /\ watch_path' = NoPath
    /\ watcher_running' = FALSE
    /\ watch_log' = Logged("Stopped")
    /\ UNCHANGED last_mod_time
    /\ UNCHANGED <<galleryVars, loopVars, now, matchVars, callVars, wfc_out>>

\* the client loads, starts and stops the watcher, and the trees are edited;
\* these loads write no annotated copies
NextManager ==
    \/ \E path \in Paths, force \in BOOLEAN : LoadBegin(path, force, FALSE)
    \/ LoadCheck
    \/ LoadResetStatus
    \/ LoadSetPath
    \/ LoadSetLoading
    \/ LoadClear
    \/ LoadReadDir
    \/ LoadEntry
    \/ LoadInsert
    \/ LoadSetLoaded
    \/ FsChange
    \/ ManagerStartWatching
    \/ ManagerStopWatching

SpecManager == InitManager /\ [][NextManager]_vars

\* C14: stop_watching leaves the manager stopped whatever its state, and is
\* a no-op on a manager that is stopped already; a start_watching that
\* follows a stop, on a directory that can be watched, succeeds and installs
\* a started FolderWatcher, and edits of the watched directory are reported
\* to its channel.
C14_StopSafeAndRestartable ==
    [][/\ ManagerStopWatching
            => ~watcher' /\ ~watcher_running' /\ ~fw_watcher' /\ ~fw_receiver'
       /\ ManagerStopWatching /\ ~watcher /\ ~watcher_running
            => UNCHANGED <<galleryVars, folderWatcherVars, loopVars, now, watcher,
                           watcher_running, last_mod_time, watch_path>>
       /\ ( /\ ManagerStartWatching
            /\ LastWatchCall = "Stopped"
            /\ db_path # NoPath
            /\ Watchable(fs[db_path]) )
            => /\ watch_log'[2] = "Ok"
               /\ watcher' /\ watcher_running' /\ fw_watcher' /\ fw_receiver'
               /\ watch_path' = db_path
       /\ ( /\ FsChange
            /\ watcher_running
            /\ fs[watch_path].exists
            /\ fs'[watch_path] # fs[watch_path] )
            => Len(fw_queue') = Len(fw_queue) + 1
      ]_vars

\* the watcher was started right after a stop and has reported an edit since
C14_Witness ==
    /\ watch_log = <<"Stopped", "Ok">>
    /\ watcher_running
    /\ fw_watcher
    /\ Len(fw_queue) = 1

\* C16: a start_watching that returns WatchError installs no watcher, leaves
\* watcher_running false, and leaves features_map, db_load_status and db_path
\* as they were.
C16_FailedStartLeavesManager ==
    [][ManagerStartWatching /\ watch_log'[2] = "WatchError"
         => /\ ~watcher' /\ ~watcher_running' /\ ~fw_watcher'
            /\ UNCHANGED <<watcher, watcher_running, folderWatcherVars, watch_path,
                           features_map, db_load_status, db_path>>]_vars

\* the start failed on a manager that holds a loaded gallery
C16_Witness ==
    /\ LastWatchCall = "WatchError"
    /\ db_load_status = "Loaded"
    /\ features_map # EmptyMap
    /\ ~watcher_running

\* one step of the load_persons_db call in flight
LoadStep ==
    \/ LoadCheck
    \/ LoadResetStatus
    \/ LoadSetPath
    \/ LoadSetLoading
    \/ LoadClear
    \/ LoadReadDir
    \/ LoadEntry
    \/ LoadInsert
    \/ LoadSetLoaded

\* a call that has begun runs to its end; the client and the environment are
\* free to do nothing
SpecManagerLive == SpecManager /\ WF_vars(LoadStep)

\* an identity directory with an image is in the watched, loaded directory
\* but not in the gallery, and the client is at rest
AwaitsReload(n) ==
    /\ db_load_status = "Loaded"
    /\ pc = "idle"
    /\ watcher_running
    /\ watch_path = db_path
    /\ fs[db_path].entries[n] = DirEntry({"face"})
    /\ n \notin DOMAIN features_map

\* C18: once the gallery is loaded and the watcher started, an identity
\* directory added to the database directory comes to be in features_map
\* unless the client itself loads again, stops the watcher or the directory
\* is edited again.
C18_WatcherDrivenReload ==
    \A n \in {"alice", "bob"} :
        AwaitsReload(n) ~> \/ n \in DOMAIN features_map
                           \/ pc # "idle"
                           \/ ~watcher_running
                           \/ fs[db_path].entries[n] # DirEntry({"face"})

(* ------------------------------------------------------------------ *)
(* find_best_match                                                     *)
(* ------------------------------------------------------------------ *)

\* the cosine scores match_ can return and the thresholds a client may pass,
\* in order; a stored feature vector is represented by its score against the
\* feature vector of the query
Scores == -1 .. 2

\* the identities of the store that is queried
MatchNames == {"alice", "bob"}

FeatureLists == UNION {[1..k -> Scores] : k \in 0..MaxFeatures}

Stores == UNION {[S -> FeatureLists] : S \in SUBSET MatchNames}

\* the orders in which features_map.iter() may yield the identities
Orders(S) ==
    {o \in [1..Cardinality(S) -> S] :
        \A i, j \in 1..Cardinality(S) : o[i] = o[j] => i = j}

\* mutant: a pair replaces the best one if its score is not lower
BetterOrEqual(score, best, threshold) ==
    score >= best.score /\ score > threshold

\* mutant: a score equal to the threshold is accepted
BetterAtThreshold(score, best, threshold) ==
    score > best.score /\ score >= threshold

\* score > best_match.score && score > threshold
Better(score, best, threshold) == score > best.score /\ score > threshold

\* the inner loop: the features of one identity, in order
RECURSIVE ScanFeatures(_, _, _, _)
ScanFeatures(name, features, threshold, acc) ==
    IF features = <<>>
    THEN acc
    ELSE LET score == Head(features)
         IN  ScanFeatures(name, Tail(features), threshold,
                 [results |-> Append(acc.results, MatchResult(name, score)),
                  best_match |-> IF Better(score, acc.best_match, threshold)
                                 THEN MatchResult(name, score)
                                 ELSE acc.best_match])

\* the outer loop: the identities, in the order of the iterator
RECURSIVE ScanPersons(_, _, _, _)
ScanPersons(map, order, threshold, acc) ==
    IF order = <<>>
    THEN acc
    ELSE ScanPersons(map, Tail(order), threshold,
             ScanFeatures(Head(order), map[Head(order)], threshold, acc))

\* Ok(MatchResults { results, best_match })
MatchResults(map, order, threshold) ==
    LET acc == ScanPersons(map, order, threshold,
                           [results |-> <<>>, best_match |-> UnknownMatch])
    IN  [status |-> "Ok", results |-> acc.results, best_match |-> acc.best_match]

\* a manager whose gallery is loaded, with any store
InitMatch ==
    /\ fs = InitFs
    /\ db_load_status = "Loaded"
    /\ db_path = "dbA"
    /\ features_map \in Stores
    /\ InitRest

\* find_best_match, under the read lock from its first line to its return
FindBestMatch(threshold, order) ==
    /\ q_pc = "idle"
    /\ m_threshold' = threshold
    /\ m_out' = MatchResults(features_map, order, threshold)
    /\ UNCHANGED <<galleryVars, folderWatcherVars, loopVars, now, facadeVars,
                   runVars, callVars, wfc_out>>

\* find_best_match when match_ returns an error for one of the features
FindBestMatchFails(threshold) ==
    /\ q_pc = "idle"
    /\ \E n \in DOMAIN features_map : features_map[n] # <<>>
    /\ m_threshold' = threshold
    /\ m_out' = [status |-> "Err", results |-> <<>>, best_match |-> UnknownMatch]
    /\ UNCHANGED <<galleryVars, folderWatcherVars, loopVars, now, facadeVars,
                   runVars, callVars, wfc_out>>

NextMatch ==
    \/ \E threshold \in Scores, order \in Orders(DOMAIN features_map) :
         FindBestMatch(threshold, order)
    \/ \E threshold \in Scores : FindBestMatchFails(threshold)

SpecMatch == InitMatch /\ [][NextMatch]_vars

\* C19: the best match that find_best_match returns is the Unknown sentinel
\* with score 0 or has a score strictly greater than the threshold.
C19_ThresholdSafety ==
    m_out.status = "Ok"
        => \/ m_out.best_match = UnknownMatch
           \/ m_out.best_match.score > m_threshold

\* alice is returned although bob has a feature whose score is exactly the
\* threshold
C19_Witness ==
    /\ m_out.status = "Ok"
    /\ m_out.best_match.name = "alice"
    /\ \E i \in 1..Len(m_out.results) :
         /\ m_out.results[i].name = "bob"
         /\ m_out.results[i].score = m_threshold

\* the number of feature vectors in the store
RECURSIVE FeatureCount(_, _)
FeatureCount(map, S) ==
    IF S = {}
    THEN 0
    ELSE LET n == CHOOSE n \in S : TRUE
         IN  Len(map[n]) + FeatureCount(map, S \ {n})

\* the results whose score exceeds the threshold
Exceeding(results, threshold) ==
    {i \in 1..Len(results) : results[i].score > threshold}

\* C20: for every store and every threshold, negative ones included, the
\* results hold one entry for each stored feature, the best match is an
\* entry of maximal score among those whose score exceeds the threshold, and
\* it is the Unknown sentinel exactly if no score exceeds the threshold.
C20_BestMatchIsMaximum ==
    m_out.status = "Ok"
        => LET results == m_out.results
               best == m_out.best_match
               above == Exceeding(results, m_threshold)
           IN  /\ Len(results) = FeatureCount(features_map, DOMAIN features_map)
               /\ (above = {}) <=> (best = UnknownMatch)
               /\ above # {}
                    => /\ \E i \in above : results[i] = best
                       /\ \A i \in above : results[i].score <= best.score

(* ------------------------------------------------------------------ *)
(* run and run_one_face                                                *)
(* ------------------------------------------------------------------ *)

\* the faces of a frame that are followed
MaxFaces == 2

\* what the detector reports of one face, by what becomes of the row: its
\* feature vector is that of the reference query or the opposite vector,
\* align_crop fails, feature fails, or match_ fails on its feature vector
FaceRows == {"reference", "opposite", "unaligned", "featureless", "unscorable"}

\* the frames passed to run: an empty Mat, an image on which detect fails,
\* and an image with the rows that detect reports
Frames ==
    {[kind |-> k, rows |-> <<>>] : k \in {"empty", "undetectable"}}
        \cup {[kind |-> "image", rows |-> rows] :
                rows \in UNION {[1..k -> FaceRows] : k \in 0..MaxFaces}}

\* the stores that are queried by run: at most one feature vector for an
\* identity
RunStores ==
    UNION {[S -> {<<>>} \cup {<<s>> : s \in Scores}] : S \in SUBSET MatchNames}

\* mutant: the rows come out of the extractor last first
ExtractedRowsLastFirst(rows) ==
    LET kept == SelectSeq(rows, LAMBDA row : row \notin {"unaligned", "featureless"})
    IN  [i \in 1..Len(kept) |-> kept[Len(kept) + 1 - i]]

\* the loop over the rows of faces: a row whose align_crop or feature fails
\* is passed over, the others are pushed in order
ExtractedRows(rows) ==
    SelectSeq(rows, LAMBDA row : row \notin {"unaligned", "featureless"})

\* extract_features
ExtractFeatures(frame) ==
    CASE frame.kind = "empty" -> [status |-> "InvalidImage", faces |-> <<>>]
      [] frame.kind = "undetectable" -> [status |-> "DetectionFailed", faces |-> <<>>]
      [] OTHER -> [status |-> "Ok", faces |-> ExtractedRows(frame.rows)]

\* match_(face.feature, feature): the cosine of a stored feature vector
\* against the feature vector of a face, the stored vector given by its
\* cosine against the reference query
FaceScore(face, feature) == IF face = "opposite" THEN 0 - feature ELSE feature

\* the store as the face scores against it
ScoresAgainst(map, face) ==
    [n \in DOMAIN map |-> [i \in 1..Len(map[n]) |-> FaceScore(face, map[n][i])]]

\* find_best_match(&face.feature, threshold): match_ is called if the store
\* holds a feature vector, and fails on an unscorable one
FaceMatch(map, order, threshold, face) ==
    IF face = "unscorable" /\ \E n \in DOMAIN map : map[n] # <<>>
    THEN [status |-> "OpenCv", results |-> <<>>, best_match |-> UnknownMatch]
    ELSE MatchResults(ScoresAgainst(map, face), order, threshold)

\* run: Ok(results), or the first error of extract_features or
\* find_best_match
RunResults(map, order, threshold, frame) ==
    LET extracted == ExtractFeatures(frame)
        faces == extracted.faces
        matches == [i \in 1..Len(faces) |->
                       FaceMatch(map, order, threshold, faces[i])]
    IN  IF extracted.status # "Ok"
        THEN [status |-> extracted.status, results |-> <<>>, matches |-> <<>>]
        ELSE IF \E i \in 1..Len(faces) : matches[i].status # "Ok"
        THEN [status |-> "OpenCv", results |-> <<>>, matches |-> <<>>]
        ELSE [status |-> "Ok",
              results |-> [i \in 1..Len(faces) |-> matches[i].best_match],
              matches |-> matches]

\* mutant: a face replaces the best one if its score is lower
OneFaceLower(result, best) == result.score < best.score

\* mutant: a face replaces the best one if its score is not lower
OneFaceBetterOrEqual(result, best) == result.score >= best.score

\* result.score > best_match.score
OneFaceBetter(result, best) == result.score > best.score

\* for result in &results
RECURSIVE PickBest(_, _)
PickBest(results, best) ==
    IF results = <<>>
    THEN best
    ELSE PickBest(Tail(results),
                  IF OneFaceBetter(Head(results), best) THEN Head(results) ELSE best)

\* run_one_face on the results of run
BestOfFaces(results) ==
    IF results = <<>> THEN UnknownMatch ELSE PickBest(results, results[1])

\* a manager after construction, or one whose gallery is loaded, with any
\* store
InitRun ==
    /\ fs = InitFs
    /\ \/ InitGallery
       \/ /\ db_load_status = "Loaded"
          /\ db_path = "dbA"
          /\ features_map \in RunStores
    /\ InitRest

\* run(frame, threshold, false); the manager is left as it was, and one
\* query is followed in a behaviour
Run(frame, threshold, order) ==
    /\ r_out = NoRunResults
    /\ r_frame' = frame
    /\ r_threshold' = threshold
    /\ r_out' = LET res == RunResults(features_map, order, threshold, frame)
                IN  [call |-> "run", status |-> res.status,
                     results |-> res.results, matches |-> res.matches,
                     best |-> UnknownMatch]
    /\ UNCHANGED <<galleryVars, folderWatcherVars, loopVars, now, facadeVars,
                   m_threshold, m_out, callVars, wfc_out>>

\* run_one_face(frame, threshold, false)
RunOneFace(frame, threshold, order) ==
    /\ r_out = NoRunResults
    /\ r_frame' = frame
    /\ r_threshold' = threshold
    /\ r_out' = LET res == RunResults(features_map, order, threshold, frame)
                IN  [call |-> "run_one_face", status |-> res.status,
                     results |-> res.results, matches |-> res.matches,
                     best |-> IF res.status = "Ok"
                              THEN BestOfFaces(res.results)
                              ELSE UnknownMatch]
    /\ UNCHANGED <<galleryVars, folderWatcherVars, loopVars, now, facadeVars,
                   m_threshold, m_out, callVars, wfc_out>>

NextRun ==
    \/ \E frame \in Frames, threshold \in Scores,
          order \in Orders(DOMAIN features_map) : Run(frame, threshold, order)
    \/ \E frame \in Frames, threshold \in Scores,
          order \in Orders(DOMAIN features_map) : RunOneFace(frame, threshold, order)

SpecRun == InitRun /\ [][NextRun]_vars

\* C21: a run_one_face call that succeeds returns an element of maximal score
\* of the results run produces for the frame, and the Unknown sentinel with
\* score 0 if run produces no result; it fails as extract_features fails.
C21_OneFaceIsMaximum ==
    r_out.call = "run_one_face"
        => /\ ExtractFeatures(r_frame).status # "Ok"
                => r_out.status = ExtractFeatures(r_frame).status
           /\ r_out.status = "Ok" /\ r_out.results = <<>> => r_out.best = UnknownMatch
           /\ r_out.status = "Ok" /\ r_out.results # <<>>
                => /\ \E i \in 1..Len(r_out.results) : r_out.results[i] = r_out.best
                   /\ \A i \in 1..Len(r_out.results) :
                        r_out.results[i].score <= r_out.best.score

\* the second face of the frame scores higher than the first and is returned
C21_Witness ==
    /\ r_out.call = "run_one_face"
    /\ r_out.status = "Ok"
    /\ Len(r_out.results) = 2
    /\ r_out.results[1].score < r_out.results[2].score
    /\ r_out.best = r_out.results[2]

\* C22: a run or run_one_face call on a manager that has loaded nothing and
\* has no path, as it is after construction, fails with DatabaseNotLoaded.
C22_QueryBeforeLoadFails ==
    (r_out.call # "none" /\ db_load_status = "NotLoaded" /\ db_path = NoPath)
        => r_out.status = "DatabaseNotLoaded"

\* the rows of a frame on which align_crop, feature or match_ fails
FailedRows(frame, map) ==
    {i \in 1..Len(frame.rows) :
        \/ frame.rows[i] \in {"unaligned", "featureless"}
        \/ frame.rows[i] = "unscorable" /\ \E n \in DOMAIN map : map[n] # <<>>}

\* C24: a run on an image in which the detector finds faces returns one
\* result for each face, and the Unknown sentinel for a face whose alignment,
\* feature extraction or scoring fails.
C24_FailedFaceReportedUnknown ==
    (r_out.call = "run" /\ r_frame.kind = "image")
        => /\ r_out.status = "Ok"
           /\ Len(r_out.results) = Len(r_frame.rows)
           /\ \A i \in FailedRows(r_frame, features_map) :
                r_out.results[i] = UnknownMatch

\* the rows of a frame for which the extractor produces a face, in the order
\* of detection
ProducedFaces(frame) ==
    SelectSeq(frame.rows, LAMBDA row : row \in {"reference", "opposite", "unscorable"})

\* C26: a run that succeeds returns one MatchResult for each face the
\* extractor produced, in the order of detection, and each is the best match
\* of find_best_match for that face alone, whatever the other faces matched.
C26_OneResultPerFace ==
    (r_out.call = "run" /\ r_out.status = "Ok")
        => LET faces == ProducedFaces(r_frame)
           IN  /\ Len(r_out.results) = Len(faces)
               /\ \A i \in 1..Len(faces) :
                    \E order \in Orders(DOMAIN features_map) :
                       r_out.results[i] =
                           MatchResults(ScoresAgainst(features_map, faces[i]),
                                        order, r_threshold).best_match

\* the same identity is the best match of two faces of one frame
C26_Witness ==
    /\ r_out.call = "run"
    /\ r_out.status = "Ok"
    /\ Len(r_out.results) = 2
    /\ r_out.results[1].name = "alice"
    /\ r_out.results[2].name = "alice"

\* the first entry of the results that has the score
FirstOfScore(results, score) ==
    CHOOSE i \in 1..Len(results) :
        /\ results[i].score = score
        /\ \A j \in 1..(i - 1) : results[j].score # score

\* C27: the best match of find_best_match, if it is not the sentinel, is the
\* first pair visited that has its score, and what run_one_face returns is
\* the first of run's results that has its score.
C27_FirstEncounteredWins ==
    r_out.status = "Ok"
        => /\ \A f \in 1..Len(r_out.matches) :
                LET m == r_out.matches[f]
                IN  m.best_match # UnknownMatch
                        => m.best_match =
                             m.results[FirstOfScore(m.results, m.best_match.score)]
           /\ r_out.call = "run_one_face" /\ r_out.results # <<>>
                => r_out.best =
                     r_out.results[FirstOfScore(r_out.results, r_out.best.score)]

\* two identities have the top score for a face, and the one visited first is
\* its best match
C27_Witness ==
    /\ r_out.status = "Ok"
    /\ \E f \in 1..Len(r_out.matches) :
         LET m == r_out.matches[f]
         IN  /\ Len(m.results) = 2
             /\ m.results[1].score = m.results[2].score
             /\ m.results[1].name # m.results[2].name
             /\ m.best_match = m.results[1]

\* two faces of a frame have best matches of the same score and different
\* identities, and run_one_face returns the first
C27_FacesTie ==
    /\ r_out.call = "run_one_face"
    /\ r_out.status = "Ok"
    /\ Len(r_out.results) = 2
    /\ r_out.results[1].score = r_out.results[2].score
    /\ r_out.results[1].name # r_out.results[2].name
    /\ r_out.best = r_out.results[1]

(* ------------------------------------------------------------------ *)
(* Loads, path changes and queries on trees that nobody edits          *)
(* ------------------------------------------------------------------ *)

NextReload ==
    \/ \E path \in Paths : SetDbPathStatus(path)
    \/ SetDbPathPath
    \/ \E path \in Paths, force \in BOOLEAN, visualize \in BOOLEAN :
         LoadBegin(path, force, visualize)
    \/ LoadCheck
    \/ LoadResetStatus
    \/ LoadSetPath
    \/ LoadSetLoading
    \/ LoadClear
    \/ LoadReadDir
    \/ LoadEntry
    \/ LoadInsert
    \/ LoadSetLoaded
    \/ QueryBegin
    \/ QueryEnd

SpecReload == Init /\ [][NextReload]_vars

WithoutArtifacts(tree) ==
    [tree EXCEPT !.entries =
        [n \in Names |-> [tree.entries[n] EXCEPT !.files = @ \ {"vis"}]]]

\* C28: the store that a successful rebuild leaves is the gallery of the
\* tree without its "_visualize" files, so a reload of a tree to which
\* a load with visualize has added its artifacts leaves the mapping that the
\* load before left.
C28_ArtifactsKeepGallery ==
    [][LoadSucceeds
          => features_map' = Gallery(WithoutArtifacts(fs[arg_path]))]_vars

\* a reload without visualize of a tree that holds the artifacts of an
\* earlier load is about to return, with the store as it was when the reload
\* began
C28_Witness ==
    /\ pc = "entries"
    /\ todo = {}
    /\ ~arg_visualize
    /\ \E n \in Names : "vis" \in fs[arg_path].entries[n].files
    /\ old_map # EmptyMap
    /\ features_map = old_map

\* C30: whenever the status is Loaded, the store is the one a load builds
\* from the directory that db_path names: on trees that nobody edits, the
\* gallery of that directory.
C30_LoadedStoreIsOfDbPath ==
    db_load_status = "Loaded"
        => /\ db_path \in Paths
           /\ fs[db_path].exists
           /\ features_map = Gallery(fs[db_path])

\* C25: when a load returns Ok after a rebuild, db_path is the path it loaded
\* and last_mod_time is the latest modification time of a file under that
\* directory.
C25_LoadRecordsPathAndModTime ==
    [][LoadSucceeds
          => /\ db_path' = arg_path
             /\ last_mod_time' = LatestModTime(fs'[arg_path], fs_changes')]_vars

(* ------------------------------------------------------------------ *)
(* start_watching and stop_watching called from several threads        *)
(* ------------------------------------------------------------------ *)

\* the managers the calls are made on: one after construction, one whose
\* gallery is loaded, and one whose load of a missing directory failed
InitCalls ==
    /\ fs = [p \in Paths |-> IF p = "dbA" THEN ManagerTree ELSE Missing]
    /\ \/ InitGallery
       \/ /\ db_load_status = "Loaded"
          /\ db_path = "dbA"
          /\ features_map = Gallery(ManagerTree)
       \/ /\ db_load_status = "Loading"
          /\ db_path = "dbB"
          /\ features_map = EmptyMap
    /\ InitRest

\* the call of a caller moves on
Goto(t, p) == w_pc' = [w_pc EXCEPT ![t] = p]

\* the call of a caller returns
Returns(t, res) ==
    /\ Goto(t, "idle")
    /\ watch_log' = Logged(res)

\* start_watching: db_path is read; None is DatabaseNotLoaded
StartReadPath(t) ==
    /\ w_pc[t] = "idle"
    /\ IF db_path = NoPath
       THEN Returns(t, "DatabaseNotLoaded")
       ELSE Goto(t, "check_flag") /\ UNCHANGED watch_log
    /\ UNCHANGED <<watcher, watcher_running, last_mod_time, watch_path, w_lock>>
    /\ UNCHANGED <<galleryVars, folderWatcherVars, loopVars, now, matchVars,
                   wfc_out>>

\* watcher_running.load(Relaxed): a running watcher is left alone
StartCheckFlag(t) ==
    /\ w_pc[t] = "check_flag"
    /\ IF watcher_running
       THEN Returns(t, "Ok")
       ELSE Goto(t, "scan") /\ UNCHANGED watch_log
    /\ UNCHANGED <<watcher, watcher_running, last_mod_time, watch_path, w_lock>>
    /\ UNCHANGED <<galleryVars, folderWatcherVars, loopVars, now, matchVars,
                   wfc_out>>

\* get_latest_mod_time(&db_path)? and the write of last_mod_time
StartScan(t) ==
    /\ w_pc[t] = "scan"
    /\ IF ScanFails(fs[db_path])
       THEN Returns(t, "Io") /\ UNCHANGED last_mod_time
       ELSE /\ last_mod_time' = LatestModTime(fs[db_path], fs_changes)
            /\ Goto(t, "lock")
            /\ UNCHANGED watch_log
    /\ UNCHANGED <<watcher, watcher_running, watch_path, w_lock>>
    /\ UNCHANGED <<galleryVars, folderWatcherVars, loopVars, now, matchVars,
                   wfc_out>>

\* self.watcher.lock().unwrap()
StartLock(t) ==
    /\ w_pc[t] = "lock"
    /\ w_lock = NoCaller
    /\ w_lock' = t
    /\ Goto(t, "install")
    /\ UNCHANGED facadeVars
    /\ UNCHANGED <<galleryVars, folderWatcherVars, loopVars, now, matchVars,
                   wfc_out>>

\* under the guard: a FolderWatcher is made and started on the path, or the
\* call returns WatchError; the watcher is stored, the one it replaces is
\* dropped, and the guard is dropped
StartInstall(t) ==
    /\ w_pc[t] = "install"
    /\ w_lock = t
    /\ w_lock' = NoCaller
    /\ IF ~Watchable(fs[db_path])
       THEN /\ Returns(t, "WatchError")
            /\ UNCHANGED <<watcher, watch_path, folderWatcherVars>>
       ELSE /\ watcher' = TRUE
            /\ fw_watcher' = TRUE
            /\ fw_receiver' = TRUE
            /\ fw_queue' = <<>>
            /\ watch_path' = db_path
            /\ Goto(t, "set_flag")
            /\ UNCHANGED watch_log
    /\ UNCHANGED <<watcher_running, last_mod_time>>
    /\ UNCHANGED <<galleryVars, loopVars, now, matchVars,
                   wfc_out>>

\* watcher_running.store(true, Relaxed), after the guard was dropped
StartSetFlag(t) ==
    /\ w_pc[t] = "set_flag"
    /\ watcher_running' = TRUE
    /\ Returns(t, "Ok")
    /\ UNCHANGED <<watcher, last_mod_time, watch_path, w_lock>>
    /\ UNCHANGED <<galleryVars, folderWatcherVars, loopVars, now, matchVars,
                   wfc_out>>

\* stop_watching: self.watcher.lock().unwrap()
StopLock(t) ==
    /\ w_pc[t] = "idle"
    /\ w_lock = NoCaller
    /\ w_lock' = t
    /\ Goto(t, "take")
    /\ UNCHANGED facadeVars
    /\ UNCHANGED <<galleryVars, folderWatcherVars, loopVars, now, matchVars,
                   wfc_out>>

\* watcher_guard.take(): the FolderWatcher, if there is one, is stopped and
\* dropped
StopTake(t) ==
    /\ w_pc[t] = "take"
    /\ watcher' = FALSE
    /\ fw_watcher' = FALSE
    /\ fw_receiver' = FALSE
    /\ fw_queue' = <<>>
    /\ watch_path' = NoPath
    /\ Goto(t, "clear_flag")
    /\ UNCHANGED <<watcher_running, last_mod_time, watch_log, w_lock>>
    /\ UNCHANGED <<galleryVars, loopVars, now, matchVars,
                   wfc_out>>

\* watcher_running.store(false, Relaxed); the guard lives to the end of the
\* function
StopClearFlag(t) ==
    /\ w_pc[t] = "clear_flag"
    /\ w_lock = t
    /\ watcher_running' = FALSE
    /\ w_lock' = NoCaller
    /\ Returns(t, "Stopped")
    /\ UNCHANGED <<watcher, last_mod_time, watch_path>>
    /\ UNCHANGED <<galleryVars, folderWatcherVars, loopVars, now, matchVars,
                   wfc_out>>

NextCalls ==
    \/ \E t \in Callers : StartReadPath(t)
    \/ \E t \in Callers : StartCheckFlag(t)
    \/ \E t \in Callers : StartScan(t)
    \/ \E t \in Callers : StartLock(t)
    \/ \E t \in Callers : StartInstall(t)
    \/ \E t \in Callers : StartSetFlag(t)
    \/ \E t \in Callers : StopLock(t)
    \/ \E t \in Callers : StopTake(t)
    \/ \E t \in Callers : StopClearFlag(t)

SpecCalls == InitCalls /\ [][NextCalls]_vars

\* C29: when no start_watching or stop_watching call is in flight,
\* watcher_running is true exactly if a FolderWatcher is in the watcher slot.
C29_FlagMatchesWatcherSlot ==
    (\A t \in Callers : w_pc[t] = "idle") => (watcher_running <=> watcher)

\* C31: a load that fails leaves a status other than Loaded; the status stays
\* other than Loaded while no call is in flight and until the next call has
\* read it; and a call without force that reads a status other than Loaded
\* does not return early but goes on to write Loading, clear the store and
\* read the directory.
C31_FailedLoadIsRetried ==
    [][/\ LoadFails => db_load_status' # "Loaded"
       /\ (pc = "idle" /\ outcome \in LoadErrors) => db_load_status' # "Loaded"
       /\ (pc = "check" /\ pc' = "check" /\ db_load_status # "Loaded")
             => db_load_status' # "Loaded"
       /\ (pc = "check" /\ pc' # "check" /\ ~arg_force /\ db_load_status # "Loaded")
             => /\ pc' \in {"reset_status", "set_loading"}
                /\ outcome' # "skipped"
       /\ (pc = "set_loading" /\ pc' # pc) => pc' = "clear"
       /\ (pc = "clear" /\ pc' # pc) => pc' = "read_dir"]_vars

\* a call for the configured path has read the status Loading that a failed
\* load left and is about to write Loading again
C31_Witness ==
    /\ pc = "set_loading"
    /\ current_status = "Loading"
    /\ db_load_status = "Loading"
    /\ db_path = arg_path

\* C32: the debounce timestamp is the time the loop started until the first
\* callback and changes only in a step that invokes the callback, to the time
\* of that callback; so the first callback comes more than 2 seconds after
\* the loop started, and every Create/Modify event that the loop receives
\* more than 2 seconds after the last callback invokes the callback, whatever
\* events were suppressed or ignored in between.
C32_TimestampMovesWithCallback ==
    [][/\ LoopStart => last_change_time' = now /\ callbacks' = <<>>
       /\ (loop_pc = "running" /\ callbacks' = callbacks)
             => last_change_time' = last_change_time
       /\ (loop_pc = "running" /\ callbacks' # callbacks)
             => /\ callbacks' = Append(callbacks, now)
                /\ last_change_time' = now
                /\ now - last_change_time > Debounce
       /\ (/\ LoopReceive
           /\ Qualifying(Head(loop_queue))
           /\ callbacks # <<>>
           /\ now - callbacks[Len(callbacks)] > Debounce)
             => callbacks' = Append(callbacks, now)]_vars

\* under a stream of events the callback was invoked twice, and an event
\* suppressed after the second callback has left the timestamp at the time
\* of that callback
C32_Witness ==
    /\ loop_pc = "running"
    /\ Len(callbacks) = 2
    /\ last_event > callbacks[2]
    /\ last_change_time = callbacks[2]

\* C33: the receiver is there only from a start_watching until the next
\* stop_watching or watch_for_changes, and a watch_for_changes call on a
\* FolderWatcher without a receiver returns WatchError, spawns no loop and
\* invokes no callback.
C33_WatchNeedsReceiver ==
    [][/\ (~fw_receiver /\ fw_receiver') => StartWatching
       /\ (StopWatching \/ WatchForChanges) => ~fw_receiver'
       /\ ((WatchForChanges \/ WatchForChangesFails) /\ ~fw_receiver)
             => /\ wfc_out' = "WatchError"
                /\ UNCHANGED <<loopVars, folderWatcherVars>>]_vars

\* a call was refused on a FolderWatcher whose receiver an earlier call had
\* taken and whose loop has ended
C33_Witness ==
    /\ wfc_out = "WatchError"
    /\ loop_pc = "done"
    /\ ~fw_receiver

====
